---------------------------- MODULE Spec2Model ----------------------------
(***************************************************************************)
(* Job orchestration and result persistence of notebooker:                 *)
(*   - run_report / _rerun_report / _monitor_stderr                         *)
(*       (src/notebooker/web/routes/run_report.py)                          *)
(*   - snap_latest_successful_notebooks (src/notebooker/snapshot.py)        *)
(* The Result Store (the serializer) and the notebooker-cli subprocess are  *)
(* not part of the sources at hand; they are modelled from their contract.  *)
(***************************************************************************)
EXTENDS Integers, Sequences, FiniteSets, TLC

(***************************************************************************)
(* Bounds of the model.                                                    *)
(***************************************************************************)
\* number of job ids the launcher may hand out
MaxJobs == 3
\* total number of lines the subprocesses write to their diagnostic pipes,
\* and the length up to which a monitor buffer may grow by empty reads
MaxLines == 2

\* number of reruns SpecRerun admits
MaxReruns == 2

\* number of writes the pipe of the standard output of a subprocess holds
\* (the diagnostic pipe holds every line MaxLines admits)
StdoutPipeCapacity == 1

JobIds == 1..MaxJobs

None == "None"
NoRecord == [status |-> "absent"]

(***************************************************************************)
(* Text is a sequence of characters.                                       *)
(***************************************************************************)
StartsWith(s, p) == Len(s) >= Len(p) /\ SubSeq(s, 1, Len(p)) = p

\* prefix = "Rerun of "  (run_report.py:354)
RerunPrefix == <<"R", "e", "r", "u", "n", " ", "o", "f", " ">>

T_Q1 == <<"Q", "1">>
\* "Rerun of" without the trailing blank: does not carry the marker
T_RerunOf == <<"R", "e", "r", "u", "n", " ", "o", "f">>
\* a caller-supplied title that already carries the marker twice
T_Twice == RerunPrefix \o RerunPrefix \o T_Q1

N_SalesEu == <<"s", "/", "e", "u">>
N_Eu == <<"e", "u">>

\* overrides: an insertion-ordered mapping, as a sequence of <<name, value>>
\* {"q": "1"}
O_Q1 == << << <<"q">>, <<"1">> >> >>
O_Empty == << >>
\* {"a": "b_c"} and {"a_b": "c"}
O_A == << << <<"a">>, <<"b", "_", "c">> >> >>
O_B == << << <<"a", "_", "b">>, <<"c">> >> >>
\* {"r": "EU", "y": "24"}
O_RY == << << <<"r">>, <<"E", "U">> >>, << <<"y">>, <<"2", "4">> >> >>

(***************************************************************************)
(* The requests run_report is called with (its parameters, 152-162).       *)
(***************************************************************************)
Requests ==
    { [report_name |-> N_SalesEu, report_title |-> T_Q1, mailto |-> "a@b",
       overrides |-> O_Q1, hide_code |-> TRUE, generate_pdf_output |-> TRUE,
       scheduler_job_id |-> "sched1"],
      [report_name |-> N_Eu, report_title |-> T_RerunOf, mailto |-> "",
       overrides |-> O_Empty, hide_code |-> FALSE, generate_pdf_output |-> FALSE,
       scheduler_job_id |-> None],
      [report_name |-> N_SalesEu, report_title |-> T_Twice, mailto |-> "a@b",
       overrides |-> O_Q1, hide_code |-> FALSE, generate_pdf_output |-> TRUE,
       scheduler_job_id |-> None] }

\* exit statuses of the subprocess: success, failure, killed by a signal
ExitCodes == {0, 1, -9}

\* the statuses the executing process reports
TerminalStatuses == {"DONE", "ERROR"}

VARIABLES
    store,      \* Result Store: job_id -> Job Record, or NoRecord
    call,       \* the run_report call that owns each job_id
    proc,       \* the Popen object and the subprocess behind it
    pipe,       \* the diagnostic pipe of each subprocess: lines in flight
    mon,        \* the _monitor_stderr thread of each job
    aborted,    \* job ids for which _rerun_report answered abort(404)
    snap,       \* the snap_latest_successful_notebooks call
    files,      \* the file system: path -> content of the file there
    dirs        \* the file system: the directories

vars == <<store, call, proc, pipe, mon, aborted, snap, files, dirs>>
launchVars == <<store, call, proc, pipe, mon, aborted>>
snapVars == <<snap, files, dirs>>

NoRequest == [report_name |-> << >>, report_title |-> << >>, mailto |-> "",
              overrides |-> << >>, hide_code |-> FALSE,
              generate_pdf_output |-> FALSE, scheduler_job_id |-> None]
NoError == [kind |-> "none", code |-> 0]
\* pc: idle, stubbed, spawned, polled, returned, raised
IdleCall == [pc |-> "idle", run_synchronously |-> FALSE, req |-> NoRequest,
             rerun_of |-> 0, error |-> NoError, polled |-> << >>]
\* exitcode: the status the process exited with; returncode: the attribute
\* of the Popen object, set by wait() and poll(); << >> stands for None.
\* phase: what the process has reported to the store so far.
\* pc: none, alive, blocked (in a write to a full pipe), exited.
\* stdout_pipe: the writes that sit in the pipe of p.stdout (line 232).
NoProc == [pc |-> "none", phase |-> "none", stderr_open |-> FALSE,
           exitcode |-> << >>, returncode |-> << >>, emitted |-> << >>,
           stdout_pipe |-> 0]
\* stderr: the buffer of line 137; read: the lines readline has returned;
\* calls: the update_stdout calls the thread has issued, in order;
\* raised: the exception that ended the thread, if one did
NoMon == [pc |-> "none", stderr |-> << >>, read |-> << >>, calls |-> << >>,
          raised |-> "none"]

\* pc: idle, writing, done, failed.  i: the record being written;
\* k: 0 before its html is written, then the number of its resources written.
\* last: the tree the previous completed export of `last_name` left.
\* error: the call that raised the OSError which ended the export.
IdleSnap == [pc |-> "idle", report_name |-> << >>, directory |-> << >>,
             results |-> << >>, i |-> 0, k |-> 0, error |-> "none",
             last_name |-> << >>, last_ok |-> FALSE, last |-> << >>]

Init ==
    /\ store = [j \in JobIds |-> NoRecord]
    /\ call = [j \in JobIds |-> IdleCall]
    /\ proc = [j \in JobIds |-> NoProc]
    /\ pipe = [j \in JobIds |-> << >>]
    /\ mon = [j \in JobIds |-> NoMon]
    /\ aborted = {}
    /\ snap = IdleSnap
    /\ files = << >>
    /\ dirs = {}

(***************************************************************************)
(* Result Store (contract).                                                *)
(***************************************************************************)
\* get_check_result(job_id) -> Record | None
GetCheckResult(st, job_id) == st[job_id]

Found(result) == result # NoRecord

\* save_check_stub(job_id, report_name, **fields): create-or-overwrite
SaveCheckStub(st, job_id, record) == [st EXCEPT ![job_id] = record]

\* update_stdout(job_id, new_lines, replace)
UpdateStdout(st, job_id, new_lines, replace) ==
    IF ~Found(st[job_id]) THEN st
    ELSE [st EXCEPT ![job_id].stdout =
              IF replace THEN new_lines ELSE @ \o new_lines]

(***************************************************************************)
(* run_report (run_report.py:151-248).                                     *)
(***************************************************************************)
\* an identity that may be in use already
FreshJobIdColliding(j) == j \in JobIds

\* uuid.uuid4(): an identity no earlier call was given
FreshJobId(j) ==
    /\ call[j].pc = "idle"
    /\ \A k \in JobIds : k < j => call[k].pc # "idle"

\* the initial Job Record written without the overrides
StubRecordWithoutOverrides(job_id, req) ==
    [report_name |-> req.report_name,
     report_title |-> req.report_title,
     job_start_time |-> job_id,
     status |-> "SUBMITTED",
     overrides |-> << >>,
     mailto |-> req.mailto,
     generate_pdf_output |-> req.generate_pdf_output,
     hide_code |-> req.hide_code,
     scheduler_job_id |-> req.scheduler_job_id,
     stdout |-> << >>,
     raw_html |-> << >>,
     raw_html_resources |-> << >>]

\* the fields of the initial Job Record, lines 182-193
StubRecord(job_id, req) ==
    [report_name |-> req.report_name,
     report_title |-> req.report_title,
     job_start_time |-> job_id,
     status |-> "SUBMITTED",
     overrides |-> req.overrides,
     mailto |-> req.mailto,
     generate_pdf_output |-> req.generate_pdf_output,
     hide_code |-> req.hide_code,
     scheduler_job_id |-> req.scheduler_job_id,
     stdout |-> << >>,
     raw_html |-> << >>,
     raw_html_resources |-> << >>]

\* the stub, with the failure of the store passed over
SubmitIgnoringStoreError(j, req, sync, parent) ==
    /\ call[j].pc = "idle"
    /\ \A k \in JobIds : k < j => call[k].pc # "idle"
    /\ \/ store' = SaveCheckStub(store, j, StubRecord(j, req))
       \/ store' = store
    /\ call' = [call EXCEPT ![j] =
           [IdleCall EXCEPT !.pc = "stubbed", !.run_synchronously = sync,
                            !.req = req, !.rerun_of = parent]]
    /\ UNCHANGED <<proc, pipe, mon, aborted, snap, files, dirs>>

\* lines 179-193: the job id and the stub; the store may be unreachable
Submit(j, req, sync, parent) ==
    /\ FreshJobId(j)
    /\ \/ /\ store' = SaveCheckStub(store, j, StubRecord(j, req))
          /\ call' = [call EXCEPT ![j] =
                 [IdleCall EXCEPT !.pc = "stubbed", !.run_synchronously = sync,
                                  !.req = req, !.rerun_of = parent]]
       \/ /\ store' = store
          /\ call' = [call EXCEPT ![j] =
                 [IdleCall EXCEPT !.pc = "raised", !.run_synchronously = sync,
                                  !.req = req, !.rerun_of = parent,
                                  !.error = [kind |-> "PersistenceError", code |-> 0]]]
    /\ UNCHANGED <<proc, pipe, mon, aborted, snap, files, dirs>>

RunReport(j, req, sync) == Submit(j, req, sync, 0)

\* lines 232-239: Popen, and the monitor thread started on it
Spawn(j) ==
    /\ call[j].pc = "stubbed"
    /\ proc' = [proc EXCEPT ![j] =
           [NoProc EXCEPT !.pc = "alive", !.phase = "started", !.stderr_open = TRUE]]
    /\ mon' = [mon EXCEPT ![j] = [NoMon EXCEPT !.pc = "reading"]]
    /\ call' = [call EXCEPT ![j].pc = "spawned"]
    /\ UNCHANGED <<store, pipe, aborted, snap, files, dirs>>

\* Popen raises, and the launcher marks the record as failed
SpawnFailForcingError(j) ==
    /\ call[j].pc = "stubbed"
    /\ call' = [call EXCEPT ![j].pc = "raised",
                            ![j].error = [kind |-> "OSError", code |-> 0]]
    /\ store' = [store EXCEPT ![j].status = "ERROR"]
    /\ UNCHANGED <<proc, pipe, mon, aborted, snap, files, dirs>>

\* line 232: Popen raises (the executable cannot be started)
SpawnFail(j) ==
    /\ call[j].pc = "stubbed"
    /\ call' = [call EXCEPT ![j].pc = "raised",
                            ![j].error = [kind |-> "OSError", code |-> 0]]
    /\ UNCHANGED <<store, proc, pipe, mon, aborted, snap, files, dirs>>

\* Popen.poll(): the recorded return code, recording the exit status first
\* when the process has exited and nothing recorded it yet
PollResult(p) ==
    IF p.returncode # << >> THEN p.returncode
    ELSE IF p.pc = "exited" THEN p.exitcode ELSE << >>

\* if p.returncode is not None
FailureDetectedOnAnyExit(returncode) == returncode # << >>

\* line 245: if p.returncode
FailureDetected(returncode) == returncode # << >> /\ returncode # <<0>>

\* lines 245-248
Outcome(c, returncode) ==
    IF FailureDetected(returncode)
    THEN [c EXCEPT !.pc = "raised",
                   !.error = [kind |-> "RuntimeError", code |-> returncode[1]]]
    ELSE [c EXCEPT !.pc = "returned"]

\* lines 240-241, 245-248: p.wait() returns once the process has exited;
\* the return code it records no longer changes
WaitAndCheck(j) ==
    /\ call[j].pc = "spawned"
    /\ call[j].run_synchronously
    /\ proc[j].pc = "exited"
    /\ proc' = [proc EXCEPT ![j].returncode = PollResult(proc[j])]
    /\ call' = [call EXCEPT ![j] =
           Outcome([call[j] EXCEPT !.polled = PollResult(proc[j])],
                   PollResult(proc[j]))]
    /\ UNCHANGED <<store, pipe, mon, aborted, snap, files, dirs>>

\* lines 243-244: the grace period, then one poll
SleepAndPoll(j) ==
    /\ call[j].pc = "spawned"
    /\ ~call[j].run_synchronously
    /\ proc' = [proc EXCEPT ![j].returncode = PollResult(proc[j])]
    /\ call' = [call EXCEPT ![j].pc = "polled",
                            ![j].polled = PollResult(proc[j])]
    /\ UNCHANGED <<store, pipe, mon, aborted, snap, files, dirs>>

\* lines 245-248 after the poll: p.returncode is read from the Popen object
\* the monitor thread polls too
Check(j) ==
    /\ call[j].pc = "polled"
    /\ call' = [call EXCEPT ![j] = Outcome(call[j], proc[j].returncode)]
    /\ UNCHANGED <<store, proc, pipe, mon, aborted, snap, files, dirs>>

(***************************************************************************)
(* The notebooker-cli subprocess (contract): it reports its own status to  *)
(* the store, writes lines to its diagnostic stream, and exits.            *)
(***************************************************************************)
TotalEmitted[j \in 0..MaxJobs] ==
    IF j = 0 THEN 0 ELSE Len(proc[j].emitted) + TotalEmitted[j - 1]

TotalBuffered[j \in 0..MaxJobs] ==
    IF j = 0 THEN 0 ELSE Len(mon[j].stderr) + TotalBuffered[j - 1]

\* a line of bytes on the pipe: text, or bytes that are not valid utf-8
TextLine(k) == [valid |-> TRUE, text |-> ToString(k)]
BadLine(k) == [valid |-> FALSE, text |-> ToString(k)]

\* the rendered document of job j
Html(j) == <<"h", ToString(j)>>

ProcSetRunning(j) ==
    /\ proc[j].pc = "alive"
    /\ proc[j].phase = "started"
    /\ proc' = [proc EXCEPT ![j].phase = "running"]
    /\ store' = [store EXCEPT ![j].status = "RUNNING"]
    /\ UNCHANGED <<call, pipe, mon, aborted, snap, files, dirs>>

ProcFinish(j, status) ==
    /\ proc[j].pc = "alive"
    /\ proc[j].phase = "running"
    /\ proc' = [proc EXCEPT ![j].phase = "finished"]
    /\ store' = [store EXCEPT ![j].status = status,
                              ![j].raw_html = IF status = "DONE" THEN Html(j)
                                              ELSE @]
    /\ UNCHANGED <<call, pipe, mon, aborted, snap, files, dirs>>

ProcEmit(j, valid) ==
    /\ proc[j].pc = "alive"
    /\ proc[j].stderr_open
    /\ TotalEmitted[MaxJobs] < MaxLines
    /\ LET line == IF valid THEN TextLine(Len(proc[j].emitted) + 1)
                   ELSE BadLine(Len(proc[j].emitted) + 1)
       IN /\ proc' = [proc EXCEPT ![j].emitted = Append(@, line)]
          /\ pipe' = [pipe EXCEPT ![j] = Append(@, line)]
    /\ UNCHANGED <<store, call, mon, aborted, snap, files, dirs>>

\* a write to the standard output, which line 232 redirects into a pipe that
\* nothing reads: it fills the pipe, and blocks once the pipe is full
ProcWriteStdout(j) ==
    /\ proc[j].pc = "alive"
    /\ proc' = IF proc[j].stdout_pipe < StdoutPipeCapacity
               THEN [proc EXCEPT ![j].stdout_pipe = @ + 1]
               ELSE [proc EXCEPT ![j].pc = "blocked"]
    /\ UNCHANGED <<store, call, pipe, mon, aborted, snap, files, dirs>>

\* the write end of the pipe is closed while poll() does not report an exit
\* yet: the process closed its stream, or has died and is not reaped yet
ProcCloseStderr(j) ==
    /\ proc[j].pc = "alive"
    /\ proc[j].stderr_open
    /\ proc' = [proc EXCEPT ![j].stderr_open = FALSE]
    /\ UNCHANGED <<store, call, pipe, mon, aborted, snap, files, dirs>>

ProcExit(j, code) ==
    /\ proc[j].pc = "alive"
    /\ proc' = [proc EXCEPT ![j].pc = "exited", ![j].stderr_open = FALSE,
                            ![j].exitcode = <<code>>]
    /\ UNCHANGED <<store, call, pipe, mon, aborted, snap, files, dirs>>

(***************************************************************************)
(* _monitor_stderr (run_report.py:136-148).                                *)
(***************************************************************************)
\* line 141: bytes.decode("utf-8"), strict
Decodable(bytes) == bytes.valid
Decode(bytes) == bytes.text

\* update_stdout(job_id, new_lines, replace) as the monitor issues it
StdoutCall(new_lines, replace) == [new_lines |-> new_lines, replace |-> replace]

\* the final replace without the break: the loop goes on
MonitorFinishWithoutBreak(j) ==
    /\ store' = UpdateStdout(store, j, mon[j].stderr, TRUE)
    /\ mon' = [mon EXCEPT ![j].calls = Append(@, StdoutCall(mon[j].stderr, TRUE))]

\* lines 143-144: the final replace, and the end of the loop
MonitorFinish(j) ==
    /\ store' = UpdateStdout(store, j, mon[j].stderr, TRUE)
    /\ mon' = [mon EXCEPT ![j].pc = "done",
                          ![j].calls = Append(@, StdoutCall(mon[j].stderr, TRUE))]

\* lines 145-147 with the store answering: the line joins the buffer and is
\* appended to the stored stdout (or the append is lost on its way)
MonitorAppend(j, line, lost) ==
    /\ mon' = [mon EXCEPT ![j].stderr = Append(@, line),
                          ![j].read = IF line = "" THEN @ ELSE Append(@, line),
                          ![j].calls = Append(@, StdoutCall(<<line>>, FALSE))]
    /\ store' = IF lost THEN store ELSE UpdateStdout(store, j, <<line>>, FALSE)

\* lines 145-147 with update_stdout raising: nothing catches it, the thread ends
MonitorAppendRaises(j, line) ==
    /\ mon' = [mon EXCEPT ![j].stderr = Append(@, line),
                          ![j].read = IF line = "" THEN @ ELSE Append(@, line),
                          ![j].calls = Append(@, StdoutCall(<<line>>, FALSE)),
                          ![j].pc = "crashed",
                          ![j].raised = "PersistenceError"]
    /\ store' = store

\* one turn of the loop, lines 140-147, on a line of the pipe
MonitorReadLine(j) ==
    /\ mon[j].pc = "reading"
    /\ pipe[j] # << >>
    /\ pipe' = [pipe EXCEPT ![j] = Tail(@)]
    /\ IF Decodable(Head(pipe[j]))
       THEN \/ MonitorAppend(j, Decode(Head(pipe[j])), FALSE)
            \/ MonitorAppend(j, Decode(Head(pipe[j])), TRUE)
            \/ MonitorAppendRaises(j, Decode(Head(pipe[j])))
       ELSE \* UnicodeDecodeError: nothing catches it
            /\ mon' = [mon EXCEPT ![j].pc = "crashed",
                                  ![j].raised = "UnicodeDecodeError"]
            /\ store' = store
    /\ UNCHANGED <<call, proc, aborted, snap, files, dirs>>

\* one turn of the loop at end of file: readline returns the empty string
MonitorReadEof(j) ==
    /\ mon[j].pc = "reading"
    /\ pipe[j] = << >>
    /\ ~proc[j].stderr_open
    /\ IF PollResult(proc[j]) # << >>
       THEN /\ proc' = [proc EXCEPT ![j].returncode = PollResult(proc[j])]
            /\ MonitorFinish(j)
       ELSE /\ TotalBuffered[MaxJobs] < MaxLines
            /\ proc' = proc
            /\ \/ MonitorAppend(j, "", FALSE)
               \/ MonitorAppend(j, "", TRUE)
               \/ MonitorAppendRaises(j, "")
    /\ UNCHANGED <<call, pipe, aborted, snap, files, dirs>>

(***************************************************************************)
(* _rerun_report (run_report.py:350-365).                                  *)
(***************************************************************************)
\* the marker prepended whatever the title
RerunTitleAlwaysPrefixed(report_title) == RerunPrefix \o report_title

\* lines 354-355
RerunTitle(report_title) ==
    IF StartsWith(report_title, RerunPrefix) THEN report_title
    ELSE RerunPrefix \o report_title

\* the rerun attributed to the scheduler of the original run
RerunRequestKeepingScheduler(result) ==
    [report_name |-> result.report_name,
     report_title |-> RerunTitle(result.report_title),
     mailto |-> result.mailto,
     overrides |-> result.overrides,
     hide_code |-> FALSE,
     generate_pdf_output |-> result.generate_pdf_output,
     scheduler_job_id |-> result.scheduler_job_id]

\* the arguments of lines 356-365; hide_code is left at its default
RerunRequest(result) ==
    [report_name |-> result.report_name,
     report_title |-> RerunTitle(result.report_title),
     mailto |-> result.mailto,
     overrides |-> result.overrides,
     hide_code |-> FALSE,
     generate_pdf_output |-> result.generate_pdf_output,
     scheduler_job_id |-> None]

\* the rerun without abort(404): a missing record is taken as an empty one
RerunReportWithoutAbort(job_id, sync) ==
    \E j \in JobIds :
        Submit(j, IF Found(GetCheckResult(store, job_id))
                  THEN RerunRequest(GetCheckResult(store, job_id))
                  ELSE NoRequest, sync, job_id)

\* lines 351-353: abort(404) when the store has no record of job_id
RerunReport(job_id, sync) ==
    IF ~Found(GetCheckResult(store, job_id))
    THEN /\ aborted' = aborted \cup {job_id}
         /\ UNCHANGED <<store, call, proc, pipe, mon, snap, files, dirs>>
    ELSE \E j \in JobIds :
             Submit(j, RerunRequest(GetCheckResult(store, job_id)), sync, job_id)

(***************************************************************************)
(* Spec: one run_report call, its subprocess and its monitor, step by      *)
(* step.  Jobs share nothing but the store, which is keyed by job id.      *)
(***************************************************************************)
NoCallYet == \A k \in JobIds : call[k].pc = "idle"

\* the one call of run_report Spec follows
FirstRunReport(j, req, sync) == NoCallYet /\ RunReport(j, req, sync)

Next ==
    \E j \in JobIds :
        \/ \E req \in Requests, sync \in BOOLEAN : FirstRunReport(j, req, sync)
        \/ Spawn(j)
        \/ SpawnFail(j)
        \/ WaitAndCheck(j)
        \/ SleepAndPoll(j)
        \/ Check(j)
        \/ ProcSetRunning(j)
        \/ \E s \in TerminalStatuses : ProcFinish(j, s)
        \/ \E valid \in BOOLEAN : ProcEmit(j, valid)
        \/ ProcWriteStdout(j)
        \/ ProcCloseStderr(j)
        \/ \E c \in ExitCodes : ProcExit(j, c)
        \/ MonitorReadLine(j)
        \/ MonitorReadEof(j)

Spec == Init /\ [][Next]_vars

(***************************************************************************)
(* SpecFair: Spec with its threads scheduled.  The thread of run_report    *)
(* and the monitor thread (a daemon thread of the same interpreter) take   *)
(* their next step whenever they can; a subprocess that is not blocked in  *)
(* a write runs to its exit.                                               *)
(***************************************************************************)
Fairness ==
    \A j \in JobIds :
        /\ WF_vars(Spawn(j) \/ SpawnFail(j))
        /\ WF_vars(WaitAndCheck(j))
        /\ WF_vars(SleepAndPoll(j))
        /\ WF_vars(Check(j))
        /\ WF_vars(MonitorReadLine(j))
        /\ WF_vars(MonitorReadEof(j))
        /\ WF_vars(\E c \in ExitCodes : ProcExit(j, c))

SpecFair == Init /\ [][Next]_vars /\ Fairness

(***************************************************************************)
(* SpecRerun: one job submitted through the web route and the reruns of    *)
(* it and of its reruns, concurrently.  Both routes call with the default  *)
(* run_synchronously=False (lines 299-308, 379); the subprocesses are      *)
(* started and left running.                                               *)
(***************************************************************************)
RerunsMade == Cardinality({j \in JobIds : call[j].rerun_of # 0})

\* rerun_report (lines 368-382), as long as the bound admits reruns
BoundedRerunReport(job_id) == RerunsMade < MaxReruns /\ RerunReport(job_id, FALSE)

NextRerun ==
    \/ \E j \in JobIds, req \in Requests : FirstRunReport(j, req, FALSE)
    \/ \E job_id \in JobIds : BoundedRerunReport(job_id)
    \/ \E j \in JobIds :
        \/ Spawn(j)
        \/ SpawnFail(j)
        \/ SleepAndPoll(j)
        \/ Check(j)

SpecRerun == Init /\ [][NextRerun]_vars

(***************************************************************************)
(* SpecStatus: the writers of the status of a record, concurrently: the    *)
(* stub of run_report, for a first job and for reruns, and the status      *)
(* reports of the subprocesses.                                            *)
(***************************************************************************)
NextStatus ==
    \/ \E j \in JobIds, req \in Requests : FirstRunReport(j, req, FALSE)
    \/ \E job_id \in JobIds : BoundedRerunReport(job_id)
    \/ \E j \in JobIds :
        \/ Spawn(j)
        \/ ProcSetRunning(j)
        \/ \E s \in TerminalStatuses : ProcFinish(j, s)

SpecStatus == Init /\ [][NextStatus]_vars

(***************************************************************************)
(* Paths (posixpath) and the file system.                                  *)
(***************************************************************************)
RECURSIVE SplitFrom(_, _, _)
\* str.split("/"): the segments of s from position i on, cur being the
\* segment read so far
SplitFrom(s, i, cur) ==
    IF i > Len(s) THEN <<cur>>
    ELSE IF s[i] = "/" THEN <<cur>> \o SplitFrom(s, i + 1, << >>)
    ELSE SplitFrom(s, i + 1, Append(cur, s[i]))

Split(s) == SplitFrom(s, 1, << >>)

\* os.path.join(a, b)
PathJoin(a, b) ==
    IF StartsWith(b, <<"/">>) THEN b
    ELSE IF a = << >> \/ a[Len(a)] = "/" THEN a \o b
    ELSE a \o <<"/">> \o b

RECURSIVE LastSlash(_, _)
\* s.rfind("/") + 1 within the first i characters
LastSlash(s, i) ==
    IF i = 0 THEN 0 ELSE IF s[i] = "/" THEN i ELSE LastSlash(s, i - 1)

RECURSIVE RStripSlash(_)
RStripSlash(s) ==
    IF s # << >> /\ s[Len(s)] = "/" THEN RStripSlash(SubSeq(s, 1, Len(s) - 1)) ELSE s

\* os.path.dirname(p)
Dirname(p) ==
    LET head == SubSeq(p, 1, LastSlash(p, Len(p)))
    IN IF RStripSlash(head) = << >> THEN head ELSE RStripSlash(head)

\* the place a path names: its non-empty segments
Place(p) == SelectSeq(Split(p), LAMBDA seg : seg # << >>)

\* every directory on the way to place d, d included
Ancestors(d) == {SubSeq(d, 1, n) : n \in 1..Len(d)}

IsFile(place) == place \in DOMAIN files

(***************************************************************************)
(* snap_latest_successful_notebooks (snapshot.py).                         *)
(***************************************************************************)
\* config.OUTPUT_DIR
OutputDir == <<"/", "o">>

\* get_latest_successful_job_results_all_params (contract): for each
\* distinct overrides submitted under report_name, the latest DONE record
LatestSuccessfulIds(st, report_name) ==
    {j \in JobIds :
        /\ Found(st[j])
        /\ st[j].status = "DONE"
        /\ st[j].report_name = report_name
        /\ \A k \in JobIds :
              (/\ Found(st[k]) /\ st[k].status = "DONE"
               /\ st[k].report_name = report_name
               /\ st[k].overrides = st[j].overrides)
              => st[k].job_start_time <= st[j].job_start_time}

RECURSIVE InOrder(_, _)
\* the records of the job ids in `ids`, in the order of their ids
InOrder(st, ids) ==
    IF ids = {} THEN << >>
    ELSE LET j == CHOOSE x \in ids : \A y \in ids : x <= y
         IN <<st[j]>> \o InOrder(st, ids \ {j})

GetLatestSuccessful(st, report_name) ==
    InOrder(st, LatestSuccessfulIds(st, report_name))

\* line 13: report_name.split("/")[-1]
ReportSuffix(report_name) == Split(report_name)[Len(Split(report_name))]

\* line 14
ReportDirectory(report_name) == PathJoin(OutputDir, ReportSuffix(report_name))

\* f"{x}={y}"
OverridePairWithEquals(x, y) == x \o <<"=">> \o y

\* line 35: f"{x}_{y}"
OverridePair(x, y) == x \o <<"_">> \o y

RECURSIVE OverrideStr(_)
\* line 35: "".join([... for x, y in result.overrides.items()])
OverrideStr(overrides) ==
    IF overrides = << >> THEN << >>
    ELSE OverridePair(overrides[1][1], overrides[1][2]) \o OverrideStr(Tail(overrides))

\* lines 36-37
SaveFilePath(result, directory) ==
    PathJoin(directory, OverrideStr(result.overrides) \o <<".", "h", "t", "m", "l">>)

\* line 27
OutputPath(path, directory) == PathJoin(directory, path)

\* os.makedirs(os.path.dirname(filename)) finds the directory there
\* already: EEXIST
DirsPresent(filename) ==
    \/ Place(Dirname(filename)) \in dirs
    \/ IsFile(Place(Dirname(filename)))

\* os.makedirs can make the directory and its missing parents
CanCreateDirs(filename) ==
    /\ Dirname(filename) # << >>
    /\ \A d \in Ancestors(Place(Dirname(filename))) : ~IsFile(d)

\* _create_dirs_if_not_present without the errno test: EEXIST is raised too
CreateDirsRaisesWhenPresent(filename, mkdir_fails) ==
    \/ DirsPresent(filename)
    \/ mkdir_fails
    \/ ~CanCreateDirs(filename)

\* lines 44-49: _create_dirs_if_not_present(filename) raises; EEXIST is
\* passed over.  mkdir_fails: os.makedirs meets another OSError.
CreateDirsRaises(filename, mkdir_fails) ==
    /\ ~DirsPresent(filename)
    /\ mkdir_fails \/ ~CanCreateDirs(filename)

\* the directories after _create_dirs_if_not_present(filename) returned
DirsAfterCreate(filename) ==
    IF DirsPresent(filename) THEN dirs
    ELSE dirs \cup Ancestors(Place(Dirname(filename)))

\* open(path, "w") raises: the path is a directory, or its parent is none
OpenRaises(path, ds) ==
    \/ Place(path) \in ds
    \/ Place(path) = << >>
    \/ Place(Dirname(path)) \notin ds \cup {<< >>}

\* the write of a file with the error of the directory creation caught: the
\* file is left out and the export goes on
WriteFileGoingOn(path, content, mkdir_fails, after) ==
    IF CreateDirsRaises(path, mkdir_fails)
    THEN /\ snap' = [after EXCEPT !.error = "makedirs"]
         /\ UNCHANGED <<files, dirs>>
    ELSE IF OpenRaises(path, DirsAfterCreate(path))
    THEN /\ snap' = [snap EXCEPT !.pc = "failed", !.error = "open"]
         /\ dirs' = DirsAfterCreate(path)
         /\ UNCHANGED files
    ELSE /\ snap' = after
         /\ dirs' = DirsAfterCreate(path)
         /\ files' = (Place(path) :> content) @@ files

\* _create_dirs_if_not_present(path); with open(path, ...) as f: f.write(content)
\* (lines 28-31 and 39-41); `after` is the state of the call when it succeeds
WriteFile(path, content, mkdir_fails, after) ==
    IF CreateDirsRaises(path, mkdir_fails)
    THEN /\ snap' = [snap EXCEPT !.pc = "failed", !.error = "makedirs"]
         /\ UNCHANGED <<files, dirs>>
    ELSE IF OpenRaises(path, DirsAfterCreate(path))
    THEN /\ snap' = [snap EXCEPT !.pc = "failed", !.error = "open"]
         /\ dirs' = DirsAfterCreate(path)
         /\ UNCHANGED files
    ELSE /\ snap' = after
         /\ dirs' = DirsAfterCreate(path)
         /\ files' = (Place(path) :> content) @@ files

\* lines 11-16: the call, up to the first file
SnapStart(report_name) ==
    /\ snap.pc \in {"idle", "done", "failed"}
    /\ snap' = [pc |-> IF GetLatestSuccessful(store, report_name) = << >>
                       THEN "done" ELSE "writing",
                report_name |-> report_name,
                directory |-> ReportDirectory(report_name),
                results |-> GetLatestSuccessful(store, report_name),
                i |-> 1, k |-> 0, error |-> "none",
                last_name |-> snap.report_name,
                last_ok |-> snap.pc = "done",
                last |-> <<files, dirs>>]
    /\ UNCHANGED <<files, dirs>>
    /\ UNCHANGED launchVars

\* lines 34-41: _write_notebook_html(result, directory)
WriteNotebookHtml(mkdir_fails) ==
    /\ snap.pc = "writing"
    /\ snap.k = 0
    /\ WriteFile(SaveFilePath(snap.results[snap.i], snap.directory),
                 snap.results[snap.i].raw_html, mkdir_fails,
                 [snap EXCEPT !.k = 1])
    /\ UNCHANGED launchVars

\* lines 26-31: one turn of the loop of _write_notebook_outputs
WriteNotebookOutput(mkdir_fails) ==
    /\ snap.pc = "writing"
    /\ snap.k >= 1
    /\ snap.k <= Len(snap.results[snap.i].raw_html_resources)
    /\ WriteFile(OutputPath(snap.results[snap.i].raw_html_resources[snap.k][1],
                            snap.directory),
                 snap.results[snap.i].raw_html_resources[snap.k][2], mkdir_fails,
                 [snap EXCEPT !.k = @ + 1])
    /\ UNCHANGED launchVars

\* lines 20-22: the next result, or the end of the loop
SnapNextResult ==
    /\ snap.pc = "writing"
    /\ snap.k > Len(snap.results[snap.i].raw_html_resources)
    /\ snap' = IF snap.i = Len(snap.results)
               THEN [snap EXCEPT !.pc = "done"]
               ELSE [snap EXCEPT !.i = @ + 1, !.k = 0]
    /\ UNCHANGED <<files, dirs>>
    /\ UNCHANGED launchVars

(***************************************************************************)
(* SpecSnap: exports, one after the other, of a store that holds the       *)
(* records of earlier jobs.                                                *)
(***************************************************************************)
R_Img == <<"i", "/", "p">>

\* the record job j left in the store, by the kind of job it was
StoredRecord(j, kind) ==
    LET done(name, ov, res) ==
            [StubRecord(j, [NoRequest EXCEPT !.report_name = name, !.overrides = ov])
                EXCEPT !.status = "DONE", !.raw_html = Html(j),
                       !.raw_html_resources = res]
    IN CASE kind = "a" -> done(N_SalesEu, O_A, << <<R_Img, <<"p", ToString(j)>> >> >>)
         [] kind = "b" -> done(N_SalesEu, O_B, << >>)
         [] kind = "ry" -> done(N_SalesEu, O_RY, << <<R_Img, <<"p", ToString(j)>> >> >>)
         [] kind = "eu" -> done(N_Eu, O_Empty, << >>)
         [] kind = "error" ->
                [StubRecord(j, [NoRequest EXCEPT !.report_name = N_SalesEu,
                                                 !.overrides = O_RY])
                    EXCEPT !.status = "ERROR"]
         [] OTHER -> NoRecord

Kinds == {"a", "b", "ry", "eu", "error", "none"}

InitSnap ==
    /\ \E kind \in [JobIds -> Kinds] :
           store = [j \in JobIds |-> StoredRecord(j, kind[j])]
    /\ call = [j \in JobIds |-> IdleCall]
    /\ proc = [j \in JobIds |-> NoProc]
    /\ pipe = [j \in JobIds |-> << >>]
    /\ mon = [j \in JobIds |-> NoMon]
    /\ aborted = {}
    /\ snap = IdleSnap
    /\ files = << >>
    /\ dirs = {}

NextSnap ==
    \/ \E report_name \in {N_SalesEu, N_Eu} : SnapStart(report_name)
    \/ \E mkdir_fails \in BOOLEAN : WriteNotebookHtml(mkdir_fails)
    \/ \E mkdir_fails \in BOOLEAN : WriteNotebookOutput(mkdir_fails)
    \/ SnapNextResult

SpecSnap == InitSnap /\ [][NextSnap]_vars

(***************************************************************************)
(* Properties.                                                             *)
(***************************************************************************)
Finished(c) == c.pc \in {"returned", "raised"}

\* C1: whenever a subprocess or a monitor exists for a job id, or run_report
\* has returned that job id, the store holds a record of it; and when
\* save_check_stub failed there is neither a subprocess nor a monitor.
C1_RecordBeforeSpawn ==
    \A j \in JobIds :
        /\ (proc[j].pc # "none" \/ mon[j].pc # "none" \/ call[j].pc = "returned")
              => Found(GetCheckResult(store, j))
        /\ call[j].error.kind = "PersistenceError"
              => proc[j].pc = "none" /\ mon[j].pc = "none"

C1_Witness ==
    \E j \in JobIds :
        /\ proc[j].pc = "alive" /\ mon[j].pc = "reading"
        /\ Found(GetCheckResult(store, j))

\* C2 as stated: the lookup made when run_report returns the job id finds
\* status SUBMITTED and the overrides that were passed in.
C2_ImmediateLookupSubmitted ==
    [][\A j \in JobIds :
          (call[j].pc # "returned" /\ call'[j].pc = "returned")
              => /\ GetCheckResult(store', j).status = "SUBMITTED"
                 /\ GetCheckResult(store', j).overrides = call'[j].req.overrides]_vars

\* C2 amended: the lookup made when run_report returns the job id finds a
\* record with the overrides that were passed in, and with status SUBMITTED
\* as long as the subprocess has not reported a status of its own.
C2_ImmediateLookup ==
    [][\A j \in JobIds :
          (call[j].pc # "returned" /\ call'[j].pc = "returned")
              => /\ Found(GetCheckResult(store', j))
                 /\ GetCheckResult(store', j).overrides = call'[j].req.overrides
                 /\ proc'[j].phase = "started"
                       => GetCheckResult(store', j).status = "SUBMITTED"
                 /\ proc'[j].phase = "running"
                       => GetCheckResult(store', j).status = "RUNNING"
                 /\ proc'[j].phase = "finished"
                       => GetCheckResult(store', j).status \in TerminalStatuses]_vars

C2_Witness ==
    \E j \in JobIds :
        /\ call[j].pc = "returned" /\ proc[j].pc = "alive"
        /\ GetCheckResult(store, j).status = "SUBMITTED"
        /\ GetCheckResult(store, j).overrides = O_Q1

\* C3: once the subprocess has exited and its monitor has ended, the stored
\* stdout is the sequence of lines the monitor read from the stream.
C3_StoredStdoutIsLinesRead ==
    \A j \in JobIds :
        (proc[j].pc = "exited" /\ mon[j].pc \in {"done", "crashed"})
            => GetCheckResult(store, j).stdout = mon[j].read

\* C4: run_report raises only when the subprocess has exited with a nonzero
\* code, which the error carries; it returns the job id only when its own
\* wait or poll did not find such an exit; with run_synchronously it checks
\* after the exit and raises exactly when the code is nonzero; and the
\* step that raises or returns leaves the store as it was.
C4_FailureClassification ==
    [][\A j \in JobIds :
          (call[j].pc \in {"spawned", "polled"} /\ Finished(call'[j]))
              => /\ call'[j].pc = "raised"
                    => /\ proc[j].pc = "exited"
                       /\ proc[j].exitcode # <<0>>
                       /\ call'[j].error = [kind |-> "RuntimeError",
                                            code |-> proc[j].exitcode[1]]
                 /\ call'[j].pc = "returned"
                    => call'[j].polled \in {<< >>, <<0>>}
                 /\ call[j].run_synchronously
                    => /\ proc[j].pc = "exited"
                       /\ call'[j].pc = "raised" <=> proc[j].exitcode # <<0>>
                 /\ store' = store]_vars

C4_Witness ==
    \E j \in JobIds :
        /\ call[j].pc = "raised" /\ ~call[j].run_synchronously
        /\ call[j].error = [kind |-> "RuntimeError", code |-> -9]
        /\ GetCheckResult(store, j).status = "SUBMITTED"

\* C5: with run_synchronously, run_report has not returned or raised its
\* execution failure before the monitor of the job has finished, so
\* the final replace of the stdout is in the store by then.
C5_SyncJoinsMonitor ==
    \A j \in JobIds :
        (/\ call[j].run_synchronously
         /\ call[j].pc = "returned" \/ call[j].error.kind = "RuntimeError")
            => /\ mon[j].pc = "done"
               /\ GetCheckResult(store, j).stdout = mon[j].stderr

RECURSIVE LeadingMarkers(_)
\* how many times the marker leads the title
LeadingMarkers(title) ==
    IF StartsWith(title, RerunPrefix)
    THEN 1 + LeadingMarkers(SubSeq(title, Len(RerunPrefix) + 1, Len(title)))
    ELSE 0

RECURSIVE ChainRoot(_)
\* the job a chain of reruns started from
ChainRoot(j) == IF call[j].rerun_of = 0 THEN j ELSE ChainRoot(call[j].rerun_of)

\* C6: every record made by a rerun, in a chain that starts from a job whose
\* title does not carry the marker, has a title led by exactly one marker.
C6_OneRerunMarker ==
    \A j \in JobIds :
        (/\ call[j].rerun_of # 0
         /\ Found(GetCheckResult(store, j))
         /\ ~StartsWith(call[ChainRoot(j)].req.report_title, RerunPrefix))
            => LeadingMarkers(GetCheckResult(store, j).report_title) = 1

C6_Witness ==
    \E j \in JobIds :
        /\ call[j].rerun_of # 0
        /\ call[call[j].rerun_of].rerun_of # 0
        /\ Found(GetCheckResult(store, j))
        /\ call[ChainRoot(j)].req.report_title = T_RerunOf
        /\ GetCheckResult(store, j).report_title = RerunPrefix \o T_RerunOf

\* C7: the step of a rerun of job_id that writes a record writes it under a
\* job id that had no record and no call, other than job_id, with the
\* report_name, mailto and overrides of the record of job_id and without a
\* scheduler_job_id; every other record, that of job_id included, is as before.
C7_RerunCreatesNewRecord ==
    [][\A j \in JobIds :
          (call[j].pc = "idle" /\ call'[j].pc = "stubbed" /\ call'[j].rerun_of # 0)
              => LET job_id == call'[j].rerun_of
                     new == GetCheckResult(store', j)
                     old == GetCheckResult(store, job_id)
                 IN /\ j # job_id
                    /\ ~Found(GetCheckResult(store, j))
                    /\ Found(old) /\ Found(new)
                    /\ new.report_name = old.report_name
                    /\ new.mailto = old.mailto
                    /\ new.overrides = old.overrides
                    /\ new.scheduler_job_id = None
                    /\ \A k \in JobIds \ {j} : store'[k] = store[k]]_vars

C7_Witness ==
    \E j \in JobIds :
        /\ call[j].rerun_of # 0
        /\ Found(GetCheckResult(store, j))
        /\ GetCheckResult(store, call[j].rerun_of).scheduler_job_id = "sched1"
        /\ GetCheckResult(store, j).scheduler_job_id = None
        /\ GetCheckResult(store, j).overrides = O_Q1

\* C8: a rerun of a job id the store has no record of is answered not-found,
\* and leaves the store, the calls, the subprocesses and the monitors as
\* they were.
C8_RerunNotFound ==
    [][\A job_id \in JobIds :
          (~Found(GetCheckResult(store, job_id)) /\ RerunReport(job_id, FALSE))
              => /\ job_id \in aborted'
                 /\ UNCHANGED <<store, call, proc, pipe, mon>>]_vars

C8_Witness ==
    \E job_id \in aborted :
        /\ ~Found(GetCheckResult(store, job_id))
        /\ \E j \in JobIds : Found(GetCheckResult(store, j))

\* the final path segment of a name: what follows its last "/"
FinalSegment(name) == SubSeq(name, LastSlash(name, Len(name)) + 1, Len(name))

RECURSIVE Label(_)
\* name_value of each pair of the mapping, in insertion order
Label(overrides) ==
    IF overrides = << >> THEN << >>
    ELSE LET n == Len(overrides)
         IN Label(SubSeq(overrides, 1, n - 1))
              \o overrides[n][1] \o <<"_">> \o overrides[n][2]

\* <root>/<report_suffix>/<label>.html
HtmlPlace(report_name, overrides) ==
    Place(OutputDir \o <<"/">> \o FinalSegment(report_name) \o <<"/">>
            \o Label(overrides) \o <<".", "h", "t", "m", "l">>)

\* C9: when the export has written the html of a record, the file at
\* <root>/<report_suffix>/<label>.html holds exactly its rendered text; and
\* when the export is done there is a file at that path for every record.
C9_HtmlWrittenAtLabel ==
    /\ (snap.pc = "writing" /\ snap.k = 1)
          => LET r == snap.results[snap.i]
                 place == HtmlPlace(snap.report_name, r.overrides)
             IN IsFile(place) /\ files[place] = r.raw_html
    /\ snap.pc = "done"
          => \A i \in 1..Len(snap.results) :
                 IsFile(HtmlPlace(snap.report_name, snap.results[i].overrides))

C9_Witness ==
    /\ snap.pc = "writing" /\ snap.k = 1
    /\ snap.report_name = N_SalesEu
    /\ snap.results[snap.i].overrides = O_RY
    /\ LET place == << <<"o">>, <<"e", "u">>,
                       <<"r", "_", "E", "U", "y", "_", "2", "4", ".", "h", "t", "m", "l">> >>
       IN IsFile(place) /\ files[place] = snap.results[snap.i].raw_html

\* C10: an export that follows a completed export of the same report does
\* not fail, and when it is done the file tree is the one the first left.
C10_ExportTwice ==
    (snap.last_ok /\ snap.last_name = snap.report_name)
        => /\ snap.pc # "failed"
           /\ snap.pc = "done" => <<files, dirs>> = snap.last

C10_Witness ==
    /\ snap.last_ok /\ snap.last_name = snap.report_name
    /\ snap.pc = "done"
    /\ Cardinality(DOMAIN files) >= 2
    /\ Cardinality(dirs) >= 3

\* C11: the update_stdout calls the monitor of a job has issued are appends
\* of one line each, the k-th carrying the k-th line of the buffer, followed
\* by at most one replace, which is the last call, carries the whole buffer
\* and is there exactly when the monitor has finished.
C11_AppendsThenOneReplace ==
    \A j \in JobIds :
        LET c == mon[j].calls
        IN /\ \A k \in 1..Len(c) :
                  IF c[k].replace
                  THEN /\ k = Len(c)
                       /\ mon[j].pc = "done"
                       /\ c[k].new_lines = mon[j].stderr
                  ELSE /\ k <= Len(mon[j].stderr)
                       /\ c[k].new_lines = <<mon[j].stderr[k]>>
           /\ mon[j].pc = "done" => (c # << >> /\ c[Len(c)].replace)

C11_Witness ==
    \E j \in JobIds :
        /\ mon[j].pc = "done"
        /\ Len(mon[j].calls) = 3
        /\ mon[j].calls[1] = StdoutCall(<<"1">>, FALSE)
        /\ mon[j].calls[2] = StdoutCall(<<"2">>, FALSE)
        /\ mon[j].calls[3] = StdoutCall(<<"1", "2">>, TRUE)

\* C12: the monitor performs its final replace and stops only after an empty
\* read with the subprocess exited (its exit reported by poll), and once the
\* subprocess has exited, which closes the stream, a monitor that is still
\* reading goes on to do so.
C12_MonitorTerminates ==
    /\ [](\A j \in JobIds :
            mon[j].pc = "done"
                => /\ proc[j].pc = "exited"
                   /\ proc[j].returncode # << >>
                   /\ pipe[j] = << >>
                   /\ mon[j].calls # << >>
                   /\ mon[j].calls[Len(mon[j].calls)].replace)
    /\ \A j \in JobIds :
          (proc[j].pc = "exited" /\ mon[j].pc = "reading") ~> (mon[j].pc = "done")

\* C13: no failure of an incremental update_stdout ends the monitor.
C13_MonitorSurvivesStoreFailure ==
    \A j \in JobIds : mon[j].raised # "PersistenceError"

\* C14 as stated: when the creation of a directory has failed for a file of
\* an export, the html of every other record of the export is written.
C14_DirErrorSkipsOneFile ==
    snap.error = "makedirs"
        => \A i \in 1..Len(snap.results) :
               i # snap.i
                   => IsFile(HtmlPlace(snap.report_name, snap.results[i].overrides))

\* C14 amended: a failure of the creation of a directory ends the export:
\* the step that meets it writes no file and leaves the export failed at
\* the record it was writing, and a failed export writes nothing more.
C14_DirErrorAbortsExport ==
    [][/\ snap'.error = "makedirs" => snap'.pc = "failed"
       /\ (snap.pc = "writing" /\ snap'.pc = "failed")
             => /\ files' = files
                /\ snap'.i = snap.i /\ snap'.k = snap.k
                /\ snap'.error \in {"makedirs", "open"}
       /\ snap.pc = "failed"
             => (files' = files /\ dirs' = dirs)]_vars

C14_Witness ==
    /\ snap.pc = "failed" /\ snap.error = "makedirs"
    /\ snap.i = 2 /\ Len(snap.results) = 3
    /\ IsFile(HtmlPlace(snap.report_name, snap.results[1].overrides))
    /\ ~IsFile(HtmlPlace(snap.report_name, snap.results[3].overrides))

\* the place of a status in the order absent, SUBMITTED, RUNNING, terminal
StatusRank(status) ==
    CASE status = "absent" -> 0
      [] status = "SUBMITTED" -> 1
      [] status = "RUNNING" -> 2
      [] OTHER -> 3

\* C15: no step takes the status of a record back to an earlier one; the
\* stub, with its SUBMITTED, is written only where there was no record.
C15_StatusMovesForward ==
    [][\A j \in JobIds :
          /\ StatusRank(store'[j].status) >= StatusRank(store[j].status)
          /\ (call[j].pc # "stubbed" /\ call'[j].pc = "stubbed")
                => (~Found(store[j]) /\ store'[j].status = "SUBMITTED")]_vars

C15_Witness ==
    \E j \in JobIds :
        /\ call[j].rerun_of # 0
        /\ store[j].status = "SUBMITTED"
        /\ store[call[j].rerun_of].status \in TerminalStatuses
        /\ \E k \in JobIds : store[k].status = "RUNNING"

\* run_report has failed to start the subprocess, or on its exit code
LaunchFailed(c) == c.error.kind \in {"OSError", "RuntimeError"}

\* C16 as stated: the record of a job whose run_report call failed to start
\* the subprocess, or failed on its exit code, has the status ERROR.
C16_LauncherForcesError ==
    \A j \in JobIds :
        LaunchFailed(call[j]) => GetCheckResult(store, j).status = "ERROR"

\* C16 amended: the launcher writes no status but the SUBMITTED of the stub:
\* the record of such a job has the status the subprocess last reported,
\* and SUBMITTED when it reported none or was never started.
C16_LauncherLeavesStatus ==
    \A j \in JobIds :
        LaunchFailed(call[j])
            => /\ Found(GetCheckResult(store, j))
               /\ call[j].error.kind = "OSError" => proc[j].phase = "none"
               /\ proc[j].phase \in {"none", "started"}
                     => GetCheckResult(store, j).status = "SUBMITTED"
               /\ proc[j].phase = "running"
                     => GetCheckResult(store, j).status = "RUNNING"
               /\ proc[j].phase = "finished"
                     => GetCheckResult(store, j).status \in TerminalStatuses

C16_Witness ==
    /\ \E j \in JobIds :
          /\ call[j].error.kind = "OSError"
          /\ GetCheckResult(store, j).status = "SUBMITTED"
          /\ proc[j].pc = "none"

\* <root>/<report_suffix>/<relative path>
ResourcePlace(report_name, path) ==
    Place(OutputDir \o <<"/">> \o FinalSegment(report_name) \o <<"/">> \o path)

\* C17: when an export has completed, for every record of it the html file
\* at its path holds its raw_html and the file at each of its resource
\* paths holds its payload.
C17_ExportLosesNoRecord ==
    snap.pc = "done"
        => \A i \in 1..Len(snap.results) :
               LET r == snap.results[i]
                   html == HtmlPlace(snap.report_name, r.overrides)
               IN /\ IsFile(html)
                  /\ files[html] = r.raw_html
                  /\ \A k \in 1..Len(r.raw_html_resources) :
                        LET place == ResourcePlace(snap.report_name,
                                                   r.raw_html_resources[k][1])
                        IN /\ IsFile(place)
                           /\ files[place] = r.raw_html_resources[k][2]

\* C18: every element of the buffer of a monitor, and of the stored stdout,
\* is a non-empty line its subprocess wrote: the buffer is the sequence of
\* lines read, an empty read adding nothing to it or to the store.
C18_NoEmptyLineAppended ==
    \A j \in JobIds :
        /\ mon[j].stderr = mon[j].read
        /\ \A k \in 1..Len(mon[j].stderr) : mon[j].stderr[k] # ""
        /\ Found(GetCheckResult(store, j))
              => \A k \in 1..Len(GetCheckResult(store, j).stdout) :
                     GetCheckResult(store, j).stdout[k] # ""

\* C19: a subprocess that was started goes on to exit, whatever it writes to
\* its pipes; so a run_report call with run_synchronously goes on to return
\* or raise, and the monitor goes on to end.
C19_SubprocessNeverStuck ==
    \A j \in JobIds :
        /\ (proc[j].pc \in {"alive", "blocked"}) ~> (proc[j].pc = "exited")
        /\ (call[j].pc = "spawned" /\ call[j].run_synchronously)
              ~> Finished(call[j])
        /\ (mon[j].pc = "reading") ~> (mon[j].pc \in {"done", "crashed"})

\* C20: the record a rerun creates has the generate_pdf_output and the
\* hide_code of the record it was rerun from.
C20_RerunKeepsFlags ==
    \A j \in JobIds :
        (call[j].rerun_of # 0 /\ Found(GetCheckResult(store, j)))
            => LET new == GetCheckResult(store, j)
                   old == GetCheckResult(store, call[j].rerun_of)
               IN /\ new.generate_pdf_output = old.generate_pdf_output
                  /\ new.hide_code = old.hide_code

=============================================================================
